---- MODULE Spec2Model ----
(***************************************************************************)
(* State-machine model of src/app.py: a Flask application over five        *)
(* SQLAlchemy tables (User, Student, Activity, BehaviorLog, ActivityLog)   *)
(* stored in SQLite, with flask-login sessions.                            *)
(*                                                                         *)
(* Text fields that the code transforms (strip, lower, int) are sequences  *)
(* of one-character strings, so that the transformations are computed.     *)
(* Every HTTP handler is one action; register and the POST of student_edit *)
(* are split at the points where another request's commit can interleave   *)
(* (between their SELECT and their COMMIT).                                *)
(***************************************************************************)
EXTENDS Integers, Sequences, FiniteSets, TLC

VARIABLES
    User,         \* rows of table user          (class User)
    Student,      \* rows of table student       (class Student)
    Activity,     \* rows of table activity      (class Activity)
    BehaviorLog,  \* rows of table behavior_log  (class BehaviorLog)
    ActivityLog,  \* rows of table activity_log  (class ActivityLog)
    session,      \* per client: the user id in its session cookie, or NoUser
    pending,      \* per client: the handler invocation in progress, if any
    request,      \* the request the last step belongs to
    response,     \* the response to it (NoResponse while it is in progress)
    removed       \* history: the ids of the Student rows deleted so far

tables == <<User, Student, Activity, BehaviorLog, ActivityLog>>
vars == <<User, Student, Activity, BehaviorLog, ActivityLog,
          session, pending, request, response, removed>>

------------------------------------------------------------------------------
(* Bounds of the model *)

MaxUsers == 2
MaxStudentId == 1
MaxActivityId == 1
MaxBehaviorLogs == 3
MaxActivityLogs == 1

Clients == {1, 2}

------------------------------------------------------------------------------
(* Python string and integer conversions *)

IsSpace(ch) == ch = " "

RECURSIVE lstrip(_)
lstrip(s) ==
    IF s = <<>> THEN <<>>
    ELSE IF IsSpace(Head(s)) THEN lstrip(Tail(s)) ELSE s

RECURSIVE rstrip(_)
rstrip(s) ==
    IF s = <<>> THEN <<>>
    ELSE IF IsSpace(s[Len(s)]) THEN rstrip(SubSeq(s, 1, Len(s) - 1)) ELSE s

\* str.strip()
strip(s) == rstrip(lstrip(s))

LowerChar(ch) ==
    CASE ch = "A" -> "a"
      [] ch = "B" -> "b"
      [] OTHER -> ch

\* str.lower()
lower(s) == IF s = <<>> THEN <<>> ELSE [i \in 1..Len(s) |-> LowerChar(s[i])]

Digits == {"0", "1", "2", "3", "4", "5", "6", "7", "8", "9"}

DigitVal(ch) ==
    CASE ch = "0" -> 0 [] ch = "1" -> 1 [] ch = "2" -> 2 [] ch = "3" -> 3
      [] ch = "4" -> 4 [] ch = "5" -> 5 [] ch = "6" -> 6 [] ch = "7" -> 7
      [] ch = "8" -> 8 [] ch = "9" -> 9

RECURSIVE DecVal(_)
DecVal(s) == IF s = <<>> THEN 0 ELSE 10 * DecVal(SubSeq(s, 1, Len(s) - 1)) + DigitVal(s[Len(s)])

\* int(text or default): whether it returns, and what
IntOk(text) ==
    \/ text = <<>>
    \/ /\ strip(text) # <<>>
       /\ \A i \in 1..Len(strip(text)) : strip(text)[i] \in Digits
IntOr(text, default) == IF text = <<>> THEN default ELSE DecVal(strip(text))

------------------------------------------------------------------------------
(* werkzeug.security: a salted hash, modelled as the pair it is a function of *)

generate_password_hash(pw, salt) == <<salt, pw>>
check_password_hash(h, pw) == h = generate_password_hash(pw, h[1])

------------------------------------------------------------------------------
(* Tables *)

NoUser == 0

Max(S) == CHOOSE x \in S : \A y \in S : y <= x

\* SQLite INTEGER PRIMARY KEY without AUTOINCREMENT: largest rowid in use + 1
NextId(T) == IF T = {} THEN 1 ELSE Max({r.id : r \in T}) + 1

Ids(T) == {r.id : r \in T}
Row(T, id) == CHOOSE r \in T : r.id = id

------------------------------------------------------------------------------
(* Responses *)

NoResponse == [status |-> 0, target |-> "", flash |-> "", body |-> <<>>]
Redirect(endpoint, flash) == [status |-> 302, target |-> endpoint, flash |-> flash, body |-> <<>>]
Page(template, flash, body) == [status |-> 200, target |-> template, flash |-> flash, body |-> body]
NotFound == [status |-> 404, target |-> "", flash |-> "", body |-> <<>>]
ServerError == [status |-> 500, target |-> "", flash |-> "", body |-> <<>>]

Idle == [step |-> "idle"]

Req(c, route, method, form) == [client |-> c, route |-> route, method |-> method, form |-> form]

\* The step answers request rq with rs and the handler invocation of c is over
Reply(c, rq, rs) ==
    /\ request' = rq
    /\ response' = rs
    /\ pending' = [pending EXCEPT ![c] = Idle]

\* The step belongs to request rq, which is not answered yet
Continue(c, rq, p) ==
    /\ request' = rq
    /\ response' = NoResponse
    /\ pending' = [pending EXCEPT ![c] = p]

------------------------------------------------------------------------------
(* Session and login_required *)

load_user(user_id) == IF user_id \in Ids(User) THEN user_id ELSE NoUser

\* a guard that lets every request through
IsAuthenticatedAlways(c) == TRUE

IsAuthenticated(c) == load_user(session[c]) # NoUser

\* login_manager.unauthorized() with login_view = "login"
Unauthorized == Redirect("login", "message:please_log_in")

------------------------------------------------------------------------------
(* Auth *)

\* a registration that forgets .lower()
NormEmailNoLower(raw) == strip(raw)

NormEmail(raw) == lower(strip(raw))

EmailTaken(email) == \E u \in User : u.email = email

\* UNIQUE constraint of user.email, enforced by the INSERT
UniqueEmailHolds(email) == \A u \in User : u.email # email

register_get(c) ==
    /\ pending[c].step = "idle"
    /\ Reply(c, Req(c, "register", "GET", <<>>), Page("register.html", "", <<>>))
    /\ UNCHANGED <<tables, session, removed>>

\* POST /register up to the duplicate check
register_post(c, name, email, password, salt) ==
    /\ pending[c].step = "idle"
    /\ LET rq == Req(c, "register", "POST",
                     [name |-> name, email |-> email, password |-> password])
           n == strip(name)
           e == NormEmail(email)
       IN  IF n = <<>> \/ e = <<>> \/ password = ""
           THEN Reply(c, rq, Redirect("register", "danger:incomplete"))
           ELSE IF EmailTaken(e)
           THEN Reply(c, rq, Redirect("register", "warning:email_taken"))
           ELSE /\ Cardinality(User) < MaxUsers
                /\ Continue(c, rq,
                       [step |-> "register_commit", request |-> rq,
                        row |-> [name |-> n, email |-> e,
                                 password_hash |-> generate_password_hash(password, salt),
                                 role |-> "teacher"]])
    /\ UNCHANGED <<tables, session, removed>>

\* db.session.add(u); db.session.commit()
register_commit(c) ==
    /\ pending[c].step = "register_commit"
    /\ LET p == pending[c]
       IN  IF UniqueEmailHolds(p.row.email)
           THEN /\ Cardinality(User) < MaxUsers
                /\ User' = User \cup {[id |-> NextId(User), name |-> p.row.name,
                                      email |-> p.row.email,
                                      password_hash |-> p.row.password_hash,
                                      role |-> p.row.role]}
                /\ Reply(c, p.request, Redirect("login", "success:registered"))
           ELSE /\ User' = User
                /\ Reply(c, p.request, ServerError)
    /\ UNCHANGED <<Student, Activity, BehaviorLog, ActivityLog, session, removed>>

login_get(c) ==
    /\ pending[c].step = "idle"
    /\ Reply(c, Req(c, "login", "GET", <<>>), Page("login.html", "", <<>>))
    /\ UNCHANGED <<tables, session, removed>>

\* a check that ignores the password
check_password_any(u, pw) == TRUE

check_password(u, pw) == check_password_hash(u.password_hash, pw)

LoginSucceeds(email, password) ==
    \E u \in User : u.email = email /\ check_password(u, password)

login_post(c, email, password) ==
    /\ pending[c].step = "idle"
    /\ LET rq == Req(c, "login", "POST", [email |-> email, password |-> password])
           e == NormEmail(email)
       IN  IF LoginSucceeds(e, password)
           THEN /\ session' = [session EXCEPT ![c] = (CHOOSE u \in User : u.email = e).id]
                /\ Reply(c, rq, Redirect("dashboard", ""))
           ELSE /\ session' = session
                /\ Reply(c, rq, Page("login.html", "danger:invalid_credentials", <<>>))
    /\ UNCHANGED <<tables, removed>>

logout_user(c) == [session EXCEPT ![c] = NoUser]

logout(c) ==
    /\ pending[c].step = "idle"
    /\ IF IsAuthenticated(c)
       THEN /\ session' = logout_user(c)
            /\ Reply(c, Req(c, "logout", "GET", <<>>), Redirect("login", ""))
       ELSE /\ session' = session
            /\ Reply(c, Req(c, "logout", "GET", <<>>), Unauthorized)
    /\ UNCHANGED <<tables, removed>>

------------------------------------------------------------------------------
(* Core pages *)

\* date.today(): the server's clock, an input of the handlers that read it
dashboard(c, today) ==
    /\ pending[c].step = "idle"
    /\ LET rq == Req(c, "dashboard", "GET", <<>>)
       IN  IF IsAuthenticated(c)
           THEN Reply(c, rq, Page("dashboard.html", "",
                    [student_count |-> Cardinality(Student),
                     activity_count |-> Cardinality(Activity),
                     todays_logs |-> Cardinality({l \in BehaviorLog : l.log_date = today})]))
           ELSE Reply(c, rq, Unauthorized)
    /\ UNCHANGED <<tables, session, removed>>

------------------------------------------------------------------------------
(* Students *)

MinAge == 6
MaxAge == 12

\* a validation with the lower bound off by one
ValidStudentOffByOne(full_name, age) == full_name # <<>> /\ age > MinAge /\ age <= MaxAge

\* the negation of: not full_name or age < 6 or age > 12
ValidStudent(full_name, age) == full_name # <<>> /\ age >= MinAge /\ age <= MaxAge

StudentForm(full_name, age, gender, notes) ==
    [full_name |-> full_name, age |-> age, gender |-> gender, notes |-> notes]

\* Student.full_name.ilike("%q%")
RECURSIVE Contains(_, _)
Contains(s, q) ==
    IF Len(q) > Len(s) THEN FALSE
    ELSE IF SubSeq(s, 1, Len(q)) = q THEN TRUE
    ELSE Contains(Tail(s), q)

\* GET /students?q=...; the rows are listed by id here, their order by full_name is
\* not modelled
students(c, q) ==
    /\ pending[c].step = "idle"
    /\ LET rq == Req(c, "students", "GET", [q |-> q])
           f == strip(q)
       IN  IF IsAuthenticated(c)
           THEN Reply(c, rq, Page("students.html", "",
                    {s.id : s \in {x \in Student :
                        f = <<>> \/ Contains(lower(x.full_name), lower(f))}}))
           ELSE Reply(c, rq, Unauthorized)
    /\ UNCHANGED <<tables, session, removed>>

student_new_get(c) ==
    /\ pending[c].step = "idle"
    /\ LET rq == Req(c, "student_new", "GET", <<>>)
       IN  IF IsAuthenticated(c)
           THEN Reply(c, rq, Page("student_form.html", "", <<>>))
           ELSE Reply(c, rq, Unauthorized)
    /\ UNCHANGED <<tables, session, removed>>

student_new_post(c, full_name, age, gender, notes) ==
    /\ pending[c].step = "idle"
    /\ LET rq == Req(c, "student_new", "POST", StudentForm(full_name, age, gender, notes))
           n == strip(full_name)
           a == IntOr(age, 0)
       IN  IF ~IsAuthenticated(c)
           THEN Student' = Student /\ Reply(c, rq, Unauthorized)
           ELSE IF ~IntOk(age)
           THEN Student' = Student /\ Reply(c, rq, ServerError)
           ELSE IF ~ValidStudent(n, a)
           THEN Student' = Student /\ Reply(c, rq, Redirect("student_new", "danger:invalid"))
           ELSE /\ NextId(Student) <= MaxStudentId
                /\ Student' = Student \cup
                       {[id |-> NextId(Student), full_name |-> n, age |-> a,
                         gender |-> gender, notes |-> notes, created_by |-> session[c]]}
                /\ Reply(c, rq, Redirect("students", "success:saved"))
    /\ UNCHANGED <<User, Activity, BehaviorLog, ActivityLog, session, removed>>

student_edit_get(c, sid) ==
    /\ pending[c].step = "idle"
    /\ LET rq == Req(c, "student_edit", "GET", [sid |-> sid])
       IN  IF ~IsAuthenticated(c)
           THEN Reply(c, rq, Unauthorized)
           ELSE IF sid \notin Ids(Student)
           THEN Reply(c, rq, NotFound)
           ELSE Reply(c, rq, Page("student_form.html", "", Row(Student, sid)))
    /\ UNCHANGED <<tables, session, removed>>

\* POST /students/<sid>/edit: login_required and s = Student.query.get_or_404(sid)
student_edit_load(c, sid, full_name, age, gender, notes) ==
    /\ pending[c].step = "idle"
    /\ LET rq == Req(c, "student_edit", "POST",
                     [sid |-> sid, full_name |-> full_name, age |-> age,
                      gender |-> gender, notes |-> notes])
       IN  IF ~IsAuthenticated(c)
           THEN Reply(c, rq, Unauthorized)
           ELSE IF sid \notin Ids(Student)
           THEN Reply(c, rq, NotFound)
           ELSE Continue(c, rq, [step |-> "edit_assign", request |-> rq,
                                 loaded |-> Row(Student, sid), obj |-> Row(Student, sid)])
    /\ UNCHANGED <<tables, session, removed>>

\* a teardown that flushes and commits the modified object
teardown_session_flushed(obj) == (Student \ {Row(Student, obj.id)}) \cup {obj}

\* The table after a request that returns without db.session.commit(): the session
\* holding the modified object obj is removed when the request ends
teardown_session(obj) == Student

\* s.full_name = ...; s.age = ...; s.gender = ...; s.notes = ...; the validation
student_edit_assign(c) ==
    /\ pending[c].step = "edit_assign"
    /\ LET p == pending[c]
           form == p.request.form
           named == [p.obj EXCEPT !.full_name = strip(form.full_name)]
           obj == [named EXCEPT !.age = IntOr(form.age, 0),
                                !.gender = form.gender, !.notes = form.notes]
       IN  IF ~IntOk(form.age)
           THEN Student' = teardown_session(named) /\ Reply(c, p.request, ServerError)
           ELSE IF ~ValidStudent(obj.full_name, obj.age)
           THEN /\ Student' = teardown_session(obj)
                /\ Reply(c, p.request, Redirect("student_edit", "danger:invalid"))
           ELSE /\ Student' = Student
                /\ Continue(c, p.request, [step |-> "edit_commit", request |-> p.request,
                                           loaded |-> p.loaded, obj |-> obj])
    /\ UNCHANGED <<User, Activity, BehaviorLog, ActivityLog, session, removed>>

StudentColumns == {"full_name", "age", "gender", "notes"}

\* The unit of work writes the attributes whose value differs from the loaded one
ChangedColumns(loaded, obj) == {col \in StudentColumns : obj[col] # loaded[col]}

\* UPDATE student SET <changed columns> WHERE id = obj.id
UpdateStudent(cur, loaded, obj) ==
    [col \in DOMAIN cur |->
        IF col \in ChangedColumns(loaded, obj) THEN obj[col] ELSE cur[col]]

\* db.session.commit()
student_edit_commit(c) ==
    /\ pending[c].step = "edit_commit"
    /\ LET p == pending[c]
           sid == p.obj.id
       IN  IF ChangedColumns(p.loaded, p.obj) = {}
           THEN /\ Student' = Student
                /\ Reply(c, p.request, Redirect("students", "success:updated"))
           ELSE IF sid \notin Ids(Student)
           THEN /\ Student' = Student
                /\ Reply(c, p.request, ServerError)
           ELSE /\ Student' = (Student \ {Row(Student, sid)})
                        \cup {UpdateStudent(Row(Student, sid), p.loaded, p.obj)}
                /\ Reply(c, p.request, Redirect("students", "success:updated"))
    /\ UNCHANGED <<User, Activity, BehaviorLog, ActivityLog, session, removed>>

student_delete(c, sid) ==
    /\ pending[c].step = "idle"
    /\ LET rq == Req(c, "student_delete", "POST", [sid |-> sid])
       IN  IF ~IsAuthenticated(c)
           THEN Student' = Student /\ removed' = removed /\ Reply(c, rq, Unauthorized)
           ELSE IF sid \notin Ids(Student)
           THEN Student' = Student /\ removed' = removed /\ Reply(c, rq, NotFound)
           ELSE /\ Student' = Student \ {Row(Student, sid)}
                /\ removed' = removed \cup {sid}
                /\ Reply(c, rq, Redirect("students", "info:deleted"))
    /\ UNCHANGED <<User, Activity, BehaviorLog, ActivityLog, session>>

\* The data of student_detail.html and print_student.html; with fewer than 30 logs
\* the limit(30) keeps them all, and their order by date is not modelled
StudentData(sid) ==
    [s |-> Row(Student, sid),
     logs |-> {l \in BehaviorLog : l.student_id = sid},
     acts |-> {l \in ActivityLog : l.student_id = sid}]

student_detail(c, sid) ==
    /\ pending[c].step = "idle"
    /\ LET rq == Req(c, "student_detail", "GET", [sid |-> sid])
       IN  IF ~IsAuthenticated(c)
           THEN Reply(c, rq, Unauthorized)
           ELSE IF sid \notin Ids(Student)
           THEN Reply(c, rq, NotFound)
           ELSE Reply(c, rq, Page("student_detail.html", "",
                    [data |-> StudentData(sid),
                     rec_acts |-> {a \in Activity :
                         a.age_min <= Row(Student, sid).age
                         /\ a.age_max >= Row(Student, sid).age}]))
    /\ UNCHANGED <<tables, session, removed>>

print_student(c, sid) ==
    /\ pending[c].step = "idle"
    /\ LET rq == Req(c, "print_student", "GET", [sid |-> sid])
       IN  IF ~IsAuthenticated(c)
           THEN Reply(c, rq, Unauthorized)
           ELSE IF sid \notin Ids(Student)
           THEN Reply(c, rq, NotFound)
           ELSE Reply(c, rq, Page("print_student.html", "", [data |-> StudentData(sid)]))
    /\ UNCHANGED <<tables, session, removed>>

------------------------------------------------------------------------------
(* Activities *)

DefaultAgeMin == 6
DefaultAgeMax == 12

\* str.isdigit()
IsDigit(text) == text # <<>> /\ \A i \in 1..Len(text) : text[i] \in Digits

\* GET /activities?age=...; listed by id, their order by title is not modelled
activities(c, age) ==
    /\ pending[c].step = "idle"
    /\ LET rq == Req(c, "activities", "GET", [age |-> age])
       IN  IF ~IsAuthenticated(c)
           THEN Reply(c, rq, Unauthorized)
           ELSE IF IsDigit(age)
           THEN Reply(c, rq, Page("activities.html", "",
                    {a.id : a \in {x \in Activity :
                        x.age_min <= DecVal(age) /\ x.age_max >= DecVal(age)}}))
           ELSE Reply(c, rq, Page("activities.html", "", Ids(Activity)))
    /\ UNCHANGED <<tables, session, removed>>

activity_new_get(c) ==
    /\ pending[c].step = "idle"
    /\ LET rq == Req(c, "activity_new", "GET", <<>>)
       IN  IF IsAuthenticated(c)
           THEN Reply(c, rq, Page("activity_form.html", "", <<>>))
           ELSE Reply(c, rq, Unauthorized)
    /\ UNCHANGED <<tables, session, removed>>

ActivityForm(title, description, category, age_min, age_max) ==
    [title |-> title, description |-> description, category |-> category,
     age_min |-> age_min, age_max |-> age_max]

activity_new_post(c, title, description, category, age_min, age_max) ==
    /\ pending[c].step = "idle"
    /\ LET rq == Req(c, "activity_new", "POST",
                     ActivityForm(title, description, category, age_min, age_max))
           t == strip(title)
       IN  IF ~IsAuthenticated(c)
           THEN Activity' = Activity /\ Reply(c, rq, Unauthorized)
           ELSE IF t = <<>>
           THEN Activity' = Activity /\ Reply(c, rq, Redirect("activity_new", "danger:no_title"))
           ELSE IF ~IntOk(age_min) \/ ~IntOk(age_max)
           THEN Activity' = Activity /\ Reply(c, rq, ServerError)
           ELSE /\ NextId(Activity) <= MaxActivityId
                /\ Activity' = Activity \cup
                       {[id |-> NextId(Activity), title |-> t, description |-> description,
                         category |-> category,
                         age_min |-> IntOr(age_min, DefaultAgeMin),
                         age_max |-> IntOr(age_max, DefaultAgeMax),
                         created_by |-> session[c]]}
                /\ Reply(c, rq, Redirect("activities", "success:added"))
    /\ UNCHANGED <<User, Student, BehaviorLog, ActivityLog, session, removed>>

activity_edit_get(c, aid) ==
    /\ pending[c].step = "idle"
    /\ LET rq == Req(c, "activity_edit", "GET", [aid |-> aid])
       IN  IF ~IsAuthenticated(c)
           THEN Reply(c, rq, Unauthorized)
           ELSE IF aid \notin Ids(Activity)
           THEN Reply(c, rq, NotFound)
           ELSE Reply(c, rq, Page("activity_form.html", "", Row(Activity, aid)))
    /\ UNCHANGED <<tables, session, removed>>

\* POST /activities/<aid>/edit, taken as one step: no title or range validation
activity_edit_post(c, aid, title, description, category, age_min, age_max) ==
    /\ pending[c].step = "idle"
    /\ LET rq == Req(c, "activity_edit", "POST",
                     [aid |-> aid, title |-> title, description |-> description,
                      category |-> category, age_min |-> age_min, age_max |-> age_max])
       IN  IF ~IsAuthenticated(c)
           THEN Activity' = Activity /\ Reply(c, rq, Unauthorized)
           ELSE IF aid \notin Ids(Activity)
           THEN Activity' = Activity /\ Reply(c, rq, NotFound)
           ELSE IF ~IntOk(age_min) \/ ~IntOk(age_max)
           THEN Activity' = Activity /\ Reply(c, rq, ServerError)
           ELSE /\ Activity' = (Activity \ {Row(Activity, aid)}) \cup
                       {[Row(Activity, aid) EXCEPT
                            !.title = strip(title), !.description = description,
                            !.category = category,
                            !.age_min = IntOr(age_min, DefaultAgeMin),
                            !.age_max = IntOr(age_max, DefaultAgeMax)]}
                /\ Reply(c, rq, Redirect("activities", "success:edited"))
    /\ UNCHANGED <<User, Student, BehaviorLog, ActivityLog, session, removed>>

activity_delete(c, aid) ==
    /\ pending[c].step = "idle"
    /\ LET rq == Req(c, "activity_delete", "POST", [aid |-> aid])
       IN  IF ~IsAuthenticated(c)
           THEN Activity' = Activity /\ Reply(c, rq, Unauthorized)
           ELSE IF aid \notin Ids(Activity)
           THEN Activity' = Activity /\ Reply(c, rq, NotFound)
           ELSE /\ Activity' = Activity \ {Row(Activity, aid)}
                /\ Reply(c, rq, Redirect("activities", "info:deleted"))
    /\ UNCHANGED <<User, Student, BehaviorLog, ActivityLog, session, removed>>

------------------------------------------------------------------------------
(* Logs *)

DefaultScore == 3

\* A date field of a form is <<>> (absent or empty) or <<year, month, day>>, the
\* numbers its "%Y-%m-%d" text gives; strptime raises on a month or a day out of range
DateOk(d) == d[2] \in 1..12 /\ d[3] \in 1..31

DateOr(d, today) == IF d = <<>> THEN today ELSE d

\* an insert that replaces the student's earlier logs
InsertBehaviorLogUpsert(row) ==
    {l \in BehaviorLog : l.student_id # row.student_id} \cup {row}

\* INSERT INTO behavior_log: SQLite does not enforce the column's FOREIGN KEY unless
\* PRAGMA foreign_keys is switched on, which nothing in the application does
InsertBehaviorLog(row) == BehaviorLog \cup {row}

behavior_new(c, sid, log_date, mood, focus, social, notes, today) ==
    /\ pending[c].step = "idle"
    /\ LET rq == Req(c, "behavior_new", "POST",
                     [student_id |-> sid, log_date |-> log_date, mood |-> mood,
                      focus |-> focus, social |-> social, notes |-> notes])
       IN  IF ~IsAuthenticated(c)
           THEN BehaviorLog' = BehaviorLog /\ Reply(c, rq, Unauthorized)
           ELSE IF (log_date # <<>> /\ ~DateOk(log_date))
                   \/ ~IntOk(mood) \/ ~IntOk(focus) \/ ~IntOk(social)
           THEN BehaviorLog' = BehaviorLog /\ Reply(c, rq, ServerError)
           ELSE /\ Cardinality(BehaviorLog) < MaxBehaviorLogs
                /\ BehaviorLog' = InsertBehaviorLog(
                       [id |-> NextId(BehaviorLog), student_id |-> sid,
                        log_date |-> DateOr(log_date, today),
                        mood |-> IntOr(mood, DefaultScore),
                        focus |-> IntOr(focus, DefaultScore),
                        social |-> IntOr(social, DefaultScore),
                        notes |-> notes])
                /\ Reply(c, rq, Redirect("student_detail", "success:logged"))
    /\ UNCHANGED <<User, Student, Activity, ActivityLog, session, removed>>

InsertActivityLog(row) == ActivityLog \cup {row}

activitylog_new(c, sid, aid, done_at, remark, today) ==
    /\ pending[c].step = "idle"
    /\ LET rq == Req(c, "activitylog_new", "POST",
                     [student_id |-> sid, activity_id |-> aid, done_at |-> done_at,
                      remark |-> remark])
       IN  IF ~IsAuthenticated(c)
           THEN ActivityLog' = ActivityLog /\ Reply(c, rq, Unauthorized)
           ELSE IF done_at # <<>> /\ ~DateOk(done_at)
           THEN ActivityLog' = ActivityLog /\ Reply(c, rq, ServerError)
           ELSE /\ Cardinality(ActivityLog) < MaxActivityLogs
                /\ ActivityLog' = InsertActivityLog(
                       [id |-> NextId(ActivityLog), student_id |-> sid,
                        activity_id |-> aid, done_at |-> DateOr(done_at, today),
                        remark |-> remark])
                /\ Reply(c, rq, Redirect("student_detail", "success:logged"))
    /\ UNCHANGED <<User, Student, Activity, BehaviorLog, session, removed>>

------------------------------------------------------------------------------
(* Reports and chart data *)

reports(c) ==
    /\ pending[c].step = "idle"
    /\ LET rq == Req(c, "reports", "GET", <<>>)
       IN  IF IsAuthenticated(c)
           THEN Reply(c, rq, Page("reports.html", "", Ids(Student)))
           ELSE Reply(c, rq, Unauthorized)
    /\ UNCHANGED <<tables, session, removed>>

DigitChar(d) ==
    CASE d = 0 -> "0" [] d = 1 -> "1" [] d = 2 -> "2" [] d = 3 -> "3" [] d = 4 -> "4"
      [] d = 5 -> "5" [] d = 6 -> "6" [] d = 7 -> "7" [] d = 8 -> "8" [] d = 9 -> "9"

\* strftime fields; %Y of a year in 1000..9999 has four digits
FmtY(y) == <<DigitChar(y \div 1000), DigitChar((y \div 100) % 10),
             DigitChar((y \div 10) % 10), DigitChar(y % 10)>>
Fmt2(n) == <<DigitChar(n \div 10), DigitChar(n % 10)>>

\* the bucket key of a row
BucketKey(d, period) ==
    IF period = "daily" THEN FmtY(d[1]) \o <<"-">> \o Fmt2(d[2]) \o <<"-">> \o Fmt2(d[3])
    ELSE IF period = "monthly" THEN FmtY(d[1]) \o <<"-">> \o Fmt2(d[2])
    ELSE FmtY(d[1])

\* code points, the order of Python's string comparison
Ord(ch) == IF ch = "-" THEN 45 ELSE 48 + DigitVal(ch)

RECURSIVE StrLess(_, _)
StrLess(a, b) ==
    IF b = <<>> THEN FALSE
    ELSE IF a = <<>> THEN TRUE
    ELSE IF Ord(Head(a)) # Ord(Head(b)) THEN Ord(Head(a)) < Ord(Head(b))
    ELSE StrLess(Tail(a), Tail(b))

\* sorted(buckets.keys())
RECURSIVE sorted(_)
sorted(K) ==
    IF K = {} THEN <<>>
    ELSE LET least == CHOOSE k \in K : \A j \in K \ {k} : StrLess(k, j)
         IN  <<least>> \o sorted(K \ {least})

\* a query without its filter
LogsOfAnyStudent(sid) == BehaviorLog

\* BehaviorLog.query.filter_by(student_id=sid)
LogsOfStudent(sid) == {l \in BehaviorLog : l.student_id = sid}

\* the rows as the query yields them
RECURSIVE RowSeq(_)
RowSeq(T) ==
    IF T = {} THEN <<>>
    ELSE LET first == CHOOSE r \in T : \A o \in T : r.id <= o.id
         IN  <<first>> \o RowSeq(T \ {first})

EmptyBucket == [mood |-> 0, focus |-> 0, social |-> 0, n |-> 0]

\* the loop over the rows: buckets[key][...] += ...
RECURSIVE Accumulate(_, _, _)
Accumulate(rows, period, buckets) ==
    IF rows = <<>> THEN buckets
    ELSE LET row == Head(rows)
             key == BucketKey(row.log_date, period)
             old == IF key \in DOMAIN buckets THEN buckets[key] ELSE EmptyBucket
             new == [mood |-> old.mood + row.mood, focus |-> old.focus + row.focus,
                     social |-> old.social + row.social, n |-> old.n + 1]
         IN  Accumulate(Tail(rows), period,
                        [k \in DOMAIN buckets \cup {key} |->
                            IF k = key THEN new ELSE buckets[k]])

\* round(total / n, 2), in hundredths; a tie is rounded to even, as Python rounds
\* the quotients that are exact in binary
Round2(total, n) ==
    LET q == (100 * total) \div n
        r == (100 * total) % n
    IN  IF 2 * r < n THEN q
        ELSE IF 2 * r > n THEN q + 1
        ELSE IF q % 2 = 0 THEN q ELSE q + 1

_aggregate_behavior(sid, period) ==
    LET buckets == Accumulate(RowSeq(LogsOfStudent(sid)), period, <<>>)
        labels == sorted(DOMAIN buckets)
        avg(col) == [i \in 1..Len(labels) |->
                        Round2(buckets[labels[i]][col], buckets[labels[i]].n)]
    IN  [labels |-> labels, mood |-> avg("mood"), focus |-> avg("focus"),
         social |-> avg("social")]

api_behavior(c, sid, period) ==
    /\ pending[c].step = "idle"
    /\ LET rq == Req(c, "api_behavior", "GET", [sid |-> sid, period |-> period])
       IN  IF IsAuthenticated(c)
           THEN Reply(c, rq, Page("json", "", _aggregate_behavior(sid, period)))
           ELSE Reply(c, rq, Unauthorized)
    /\ UNCHANGED <<tables, session, removed>>

------------------------------------------------------------------------------
(* CLI seed *)

AdminEmail == <<"a", "d", "m", "i", "n", "@", "k", "i", "d", "a", "n", "t", "a",
                ".", "l", "o", "c", "a", "l">>

\* (title, category, age_min, age_max) of the five seed activities
SeedActivities ==
    << <<"seed1", "language", 6, 8>>, <<"seed2", "STEM", 6, 9>>,
       <<"seed3", "language", 7, 10>>, <<"seed4", "science", 8, 12>>,
       <<"seed5", "sport", 9, 12>> >>

\* flask initdb
initdb(salt) ==
    /\ Cardinality(User) < MaxUsers \/ EmailTaken(AdminEmail)
    /\ User' = IF EmailTaken(AdminEmail) THEN User
               ELSE User \cup {[id |-> NextId(User), name |-> <<"A", "d", "m", "i", "n">>,
                                email |-> AdminEmail,
                                password_hash |-> generate_password_hash("admin123", salt),
                                role |-> "admin"]}
    /\ Activity' = IF Cardinality(Activity) # 0 THEN Activity
                   ELSE {[id |-> i, title |-> <<SeedActivities[i][1]>>,
                          description |-> "", category |-> SeedActivities[i][2],
                          age_min |-> SeedActivities[i][3],
                          age_max |-> SeedActivities[i][4],
                          created_by |-> NoUser] : i \in 1..Len(SeedActivities)}
    /\ request' = Req(0, "initdb", "CLI", <<>>)
    /\ response' = NoResponse
    /\ UNCHANGED <<Student, BehaviorLog, ActivityLog, session, pending, removed>>

------------------------------------------------------------------------------
Init ==
    /\ User = {}
    /\ Student = {}
    /\ Activity = {}
    /\ BehaviorLog = {}
    /\ ActivityLog = {}
    /\ session = [c \in Clients |-> NoUser]
    /\ pending = [c \in Clients |-> Idle]
    /\ request = Req(0, "", "", <<>>)
    /\ response = NoResponse
    /\ removed = {}

------------------------------------------------------------------------------
(* Inputs *)

Salts == {1, 2}
Passwords == {"p", "q"}
RegForms ==
    {[name |-> <<"T">>, email |-> <<"a">>, password |-> "p"],
     [name |-> <<"T">>, email |-> <<"A", " ">>, password |-> "p"],
     [name |-> <<"T", " ">>, email |-> <<" ", "b">>, password |-> "q"],
     [name |-> <<" ">>, email |-> <<"b">>, password |-> "p"],
     [name |-> <<"T">>, email |-> <<" ">>, password |-> "p"],
     [name |-> <<"T">>, email |-> <<"b">>, password |-> ""]}
RawEmails == {<<"a">>, <<"A", " ">>, <<" ", "b">>}
Dates == {<<2023, 12, 31>>, <<2024, 1, 1>>}

------------------------------------------------------------------------------
(* Registration, login and the session guard, with the CLI seed *)

NextAuth ==
    \/ \E c \in Clients : register_get(c)
    \/ \E c \in Clients, f \in RegForms, salt \in Salts :
           register_post(c, f.name, f.email, f.password, salt)
    \/ \E c \in Clients : register_commit(c)
    \/ \E c \in Clients : login_get(c)
    \/ \E c \in Clients, e \in RawEmails, pw \in Passwords : login_post(c, e, pw)
    \/ \E c \in Clients : logout(c)
    \/ \E c \in Clients, today \in Dates : dashboard(c, today)
    \/ \E salt \in Salts : initdb(salt)

SpecAuth == Init /\ [][NextAuth]_vars

------------------------------------------------------------------------------
(* The whole HTTP surface, with one form of each kind *)

Today == <<2024, 1, 1>>
StudentIds == 1..MaxStudentId
ActivityIds == 1..MaxActivityId

BasicStudentForms ==
    {StudentForm(<<"K">>, <<"6">>, "f", ""),
     StudentForm(<<"K">>, <<"5">>, "f", "")}

\* the clients that send requests here
Operators == {1}

Next ==
    \/ \E c \in Operators : register_get(c)
    \/ \E c \in Operators : register_post(c, <<"T">>, <<"a">>, "p", 1)
    \/ \E c \in Operators : register_commit(c)
    \/ \E c \in Operators : login_get(c)
    \/ \E c \in Operators, pw \in Passwords : login_post(c, <<"a">>, pw)
    \/ \E c \in Operators : logout(c)
    \/ \E c \in Operators : dashboard(c, Today)
    \/ \E c \in Operators : students(c, <<>>)
    \/ \E c \in Operators : student_new_get(c)
    \/ \E c \in Operators, f \in BasicStudentForms :
           student_new_post(c, f.full_name, f.age, f.gender, f.notes)
    \/ \E c \in Operators, sid \in StudentIds : student_edit_get(c, sid)
    \/ \E c \in Operators, sid \in StudentIds, f \in BasicStudentForms :
           student_edit_load(c, sid, f.full_name, f.age, f.gender, f.notes)
    \/ \E c \in Operators : student_edit_assign(c)
    \/ \E c \in Operators : student_edit_commit(c)
    \/ \E c \in Operators, sid \in StudentIds : student_delete(c, sid)
    \/ \E c \in Operators, sid \in StudentIds : student_detail(c, sid)
    \/ \E c \in Operators : activities(c, <<"8">>)
    \/ \E c \in Operators : activity_new_get(c)
    \/ \E c \in Operators : activity_new_post(c, <<"t">>, "", "", <<>>, <<>>)
    \/ \E c \in Operators, aid \in ActivityIds : activity_edit_get(c, aid)
    \/ \E c \in Operators, aid \in ActivityIds :
           activity_edit_post(c, aid, <<"t">>, "", "", <<"7">>, <<>>)
    \/ \E c \in Operators, aid \in ActivityIds : activity_delete(c, aid)
    \/ \E c \in Operators : behavior_new(c, 1, <<>>, <<>>, <<>>, <<>>, "", Today)
    \/ \E c \in Operators : activitylog_new(c, 1, 1, <<>>, "", Today)
    \/ \E c \in Operators : reports(c)
    \/ \E c \in Operators : api_behavior(c, 1, "daily")
    \/ \E c \in Operators, sid \in StudentIds : print_student(c, sid)

Spec == Init /\ [][Next]_vars

------------------------------------------------------------------------------
(* Student create and update by two clients at once *)

StudentForms ==
    {StudentForm(<<"K">>, <<"6">>, "f", ""),
     StudentForm(<<" ", "L">>, <<"6">>, "f", ""),
     StudentForm(<<"K">>, <<"1", "2">>, "f", ""),
     StudentForm(<<" ">>, <<"6">>, "m", "n"),
     StudentForm(<<"K">>, <<"5">>, "m", "n"),
     StudentForm(<<"K">>, <<"1", "3">>, "m", "n"),
     StudentForm(<<"L">>, <<>>, "f", ""),
     StudentForm(<<"K">>, <<"x">>, "f", "")}

\* the rows that are edited
EditedIds == {1}

NextStudents ==
    \/ \E c \in Clients : register_post(c, <<"T">>, <<"a">>, "p", 1)
    \/ \E c \in Clients : register_commit(c)
    \/ \E c \in Clients : login_post(c, <<"a">>, "p")
    \/ \E c \in Clients, f \in StudentForms :
           student_new_post(c, f.full_name, f.age, f.gender, f.notes)
    \/ \E c \in Clients, sid \in EditedIds : student_edit_get(c, sid)
    \/ \E c \in Clients, sid \in EditedIds, f \in StudentForms :
           student_edit_load(c, sid, f.full_name, f.age, f.gender, f.notes)
    \/ \E c \in Clients : student_edit_assign(c)
    \/ \E c \in Clients : student_edit_commit(c)

SpecStudents == Init /\ [][NextStudents]_vars

------------------------------------------------------------------------------
(* Behavior logs and their aggregation *)

LogForms ==
    {[student_id |-> 1, log_date |-> <<2024, 1, 1>>, mood |-> <<"4">>, focus |-> <<>>, social |-> <<"1">>],
     [student_id |-> 1, log_date |-> <<2024, 1, 1>>, mood |-> <<"2">>, focus |-> <<"5">>, social |-> <<"2">>],
     [student_id |-> 1, log_date |-> <<2024, 2, 10>>, mood |-> <<"1">>, focus |-> <<"4">>, social |-> <<"2">>],
     [student_id |-> 1, log_date |-> <<2023, 12, 31>>, mood |-> <<"5">>, focus |-> <<"1">>, social |-> <<"7">>],
     [student_id |-> 2, log_date |-> <<2024, 1, 1>>, mood |-> <<"5">>, focus |-> <<"5">>, social |-> <<"5">>],
     [student_id |-> 1, log_date |-> <<>>, mood |-> <<>>, focus |-> <<"2">>, social |-> <<>>],
     [student_id |-> 1, log_date |-> <<2024, 13, 1>>, mood |-> <<"3">>, focus |-> <<"3">>, social |-> <<"3">>],
     [student_id |-> 2, log_date |-> <<>>, mood |-> <<"x">>, focus |-> <<>>, social |-> <<>>]}

Periods == {"daily", "monthly", "yearly", "weekly"}
ChartIds == {1, 2, 3}

NextAgg ==
    \/ \E c \in Operators : register_post(c, <<"T">>, <<"a">>, "p", 1)
    \/ \E c \in Operators : register_commit(c)
    \/ \E c \in Operators : login_post(c, <<"a">>, "p")
    \/ \E c \in Operators : student_new_post(c, <<"K">>, <<"6">>, "f", "")
    \/ \E c \in Operators, f \in LogForms :
           behavior_new(c, f.student_id, f.log_date, f.mood, f.focus, f.social, "", Today)
    \/ \E c \in Operators, sid \in ChartIds, period \in Periods : api_behavior(c, sid, period)

SpecAgg == Init /\ [][NextAgg]_vars

------------------------------------------------------------------------------
(* Properties *)

IsRegisterPost(rq) == rq.route = "register" /\ rq.method = "POST"

\* C1: no two stored Users have the same email compared case-insensitively, and a
\* Register whose trimmed, lower-cased email is that of a stored User leaves the
\* User table unchanged, in every interleaving of the requests
C1_UniqueEmail ==
    /\ [](\A u1 \in User, u2 \in User :
            u1.id # u2.id => lower(u1.email) # lower(u2.email))
    /\ [](\A u1 \in User, u2 \in User : u1.id = u2.id => u1 = u2)
    /\ [][(IsRegisterPost(request')
           /\ \E u \in User : u.email = lower(strip(request'.form.email)))
          => User' = User]_vars

\* two requests raced to register one email, spelled in different case; the second
\* commit was refused
C1_Witness ==
    /\ IsRegisterPost(request)
    /\ response.status = 500
    /\ \E u \in User : u.email # strip(request.form.email)
                       /\ u.email = lower(strip(request.form.email))

AuthRoutes == {"register", "login"}

\* C2: a request to a route other than /register and /login that arrives without an
\* established session is redirected to the login page and changes no table; a
\* Logout ends the session
C2_RequireAuth ==
    [][/\ (/\ request'.client \in Clients
           /\ request'.route \notin AuthRoutes
           /\ pending[request'.client].step = "idle"
           /\ session[request'.client] = NoUser)
          => (/\ response'.status = 302
              /\ response'.target = "login"
              /\ UNCHANGED tables)
       /\ (/\ request'.route = "logout"
           /\ session[request'.client] # NoUser)
          => session'[request'.client] = NoUser]_vars

\* after a Logout, a delete of an existing Student was redirected to the login page
C2_Witness ==
    /\ request.route = "student_delete"
    /\ request.form.sid \in Ids(Student)
    /\ session[request.client] = NoUser
    /\ response.status = 302
    /\ response.target = "login"

\* the password a stored hash was made of
PasswordOf(u) == u.password_hash[2]

\* C3: a Login with an unknown email, or with a known email and a wrong password,
\* leaves the sessions as they are and is answered, in both cases, by the login page
\* with the one invalid-credentials message
C3_LoginFailure ==
    [][(/\ request'.route = "login"
        /\ request'.method = "POST"
        /\ \/ ~\E u \in User : u.email = lower(strip(request'.form.email))
           \/ \E u \in User : /\ u.email = lower(strip(request'.form.email))
                              /\ PasswordOf(u) # request'.form.password)
       => (/\ session' = session
           /\ response'.status = 200
           /\ response'.target = "login.html"
           /\ response'.flash = "danger:invalid_credentials"
           /\ response'.body = <<>>)]_vars

\* a Login with a stored email and a wrong password was refused by a client that
\* has no session
C3_Witness ==
    /\ request.route = "login"
    /\ request.method = "POST"
    /\ \E u \in User : /\ u.email = lower(strip(request.form.email))
                       /\ PasswordOf(u) # request.form.password
    /\ session[request.client] = NoUser
    /\ response.flash = "danger:invalid_credentials"

InvalidStudentForm(f) ==
    strip(f.full_name) = <<>> \/ IntOr(f.age, 0) < 6 \/ IntOr(f.age, 0) > 12

HoldsForm(row, f) ==
    /\ row.full_name = strip(f.full_name)
    /\ row.age = IntOr(f.age, 0)
    /\ row.gender = f.gender
    /\ row.notes = f.notes

\* C4: every stored Student has a non-blank full_name and an age in 6..12; a Create
\* or an Update with a blank name or an age below 6 or above 12 is rejected and one
\* with a non-blank name and an age in 6..12 is accepted and stored (an Update whose
\* row no other request changed since it was loaded)
C4_StudentValid ==
    /\ [](\A s \in Student : strip(s.full_name) # <<>> /\ s.age >= 6 /\ s.age <= 12)
    /\ [][/\ (/\ request'.route = "student_new"
              /\ request'.method = "POST"
              /\ session[request'.client] # NoUser
              /\ IntOk(request'.form.age))
             => IF InvalidStudentForm(request'.form)
                THEN Student' = Student /\ response'.flash = "danger:invalid"
                ELSE /\ response'.target = "students"
                     /\ \E s \in Student' \ Student : HoldsForm(s, request'.form)
          /\ (/\ request'.route = "student_edit"
              /\ request'.method = "POST"
              /\ pending[request'.client].step = "edit_assign"
              /\ IntOk(request'.form.age))
             => IF InvalidStudentForm(request'.form)
                THEN Student' = Student /\ response'.flash = "danger:invalid"
                ELSE Student' = Student /\ response'.status = 0
          /\ (/\ request'.route = "student_edit"
              /\ pending[request'.client].step = "edit_commit"
              /\ pending[request'.client].loaded \in Student)
             => /\ response'.target = "students"
                /\ \E s \in Student' : s.id = request'.form.sid /\ HoldsForm(s, request'.form)
         ]_vars

\* a Student of age 12 is stored, and a Create with age 13 was rejected
C4_Witness ==
    /\ \E s \in Student : s.age = 12
    /\ request.route = "student_new"
    /\ request.method = "POST"
    /\ request.form.age = <<"1", "3">>
    /\ response.flash = "danger:invalid"

StudentPages == {"student_detail", "student_edit", "print_student"}

\* C5: a Delete of a Student id that does not exist returns not-found and changes no
\* table; a Delete of an existing Student removes the row, and every later detail,
\* edit or print request for that id returns not-found
C5_DeletedStaysNotFound ==
    /\ [][(/\ request'.route = "student_delete"
           /\ session[request'.client] # NoUser)
          => IF request'.form.sid \in Ids(Student)
             THEN request'.form.sid \notin Ids(Student')
             ELSE response'.status = 404 /\ UNCHANGED tables]_vars
    /\ [](/\ request.route \in StudentPages
          /\ request.form.sid \in removed
          /\ response.status # 0
          /\ response.target # "login"
          => response.status = 404)

Orphans(Log) == {l \in Log : l.student_id \notin Ids(Student)}

\* C10: the student_id of every stored BehaviorLog and ActivityLog row is the id of a
\* Student that exists
C10_LogsReferenceStudents == Orphans(BehaviorLog) = {} /\ Orphans(ActivityLog) = {}

LogRoutes == {"behavior_new", "activitylog_new"}

\* C8: RecordBehaviorLog and RecordActivityLog each add one row to their table, and
\* no operation, a Delete of a Student or of an Activity included, changes or removes
\* a stored log row
C8_LogsAppendOnly ==
    [][/\ BehaviorLog \subseteq BehaviorLog'
       /\ ActivityLog \subseteq ActivityLog'
       /\ request'.route \notin LogRoutes => UNCHANGED <<BehaviorLog, ActivityLog>>
       /\ request'.route = "behavior_new" =>
            /\ ActivityLog' = ActivityLog
            /\ IF response'.target = "student_detail"
               THEN Cardinality(BehaviorLog') = Cardinality(BehaviorLog) + 1
               ELSE BehaviorLog' = BehaviorLog
       /\ request'.route = "activitylog_new" =>
            /\ BehaviorLog' = BehaviorLog
            /\ IF response'.target = "student_detail"
               THEN Cardinality(ActivityLog') = Cardinality(ActivityLog) + 1
               ELSE ActivityLog' = ActivityLog]_vars

\* a Student that has two behavior logs and an activity log was deleted, and the logs
\* are still stored
C8_Witness ==
    /\ request.route = "student_delete"
    /\ response.target = "students"
    /\ Cardinality({l \in BehaviorLog : l.student_id = request.form.sid}) = 2
    /\ \E l \in ActivityLog : l.student_id = request.form.sid

IsEditPost(rq) == rq.route = "student_edit" /\ rq.method = "POST"

\* C7: concurrent valid Updates of one Student row all complete without error, and
\* after each commit the stored row holds exactly the values that request submitted
C7_LastCommitWins ==
    (IsEditPost(request) /\ response.status \notin {0, 404} /\ response.target # "login"
     /\ IntOk(request.form.age) /\ ~InvalidStudentForm(request.form))
    => /\ response.status = 302
       /\ response.target = "students"
       /\ \E s \in Student : s.id = request.form.sid /\ HoldsForm(s, request.form)

\* C9: a Student Update that fails validation leaves the stored row, and the whole
\* table, as it was
C9_FailedUpdateKeepsRow ==
    [][(/\ IsEditPost(request')
        /\ pending[request'.client].step = "edit_assign"
        /\ IntOk(request'.form.age)
        /\ InvalidStudentForm(request'.form))
       => (/\ response'.status = 302
           /\ response'.target = "student_edit"
           /\ Student' = Student
           /\ pending'[request'.client].step = "idle")]_vars

\* an Update with a blank name and another gender and notes was refused and the row
\* holds none of its values
C9_Witness ==
    /\ IsEditPost(request)
    /\ response.target = "student_edit"
    /\ strip(request.form.full_name) = <<>>
    /\ \E s \in Student : /\ s.id = request.form.sid
                          /\ s.gender # request.form.gender
                          /\ s.notes # request.form.notes

RECURSIVE Total(_, _)
Total(S, col) ==
    IF S = {} THEN 0
    ELSE LET l == CHOOSE x \in S : TRUE IN l[col] + Total(S \ {l}, col)

\* h hundredths is the average of column col over S to 2 decimals
IsAverage(h, S, col) ==
    /\ S # {}
    /\ 2 * (100 * Total(S, col) - h * Cardinality(S)) <= Cardinality(S)
    /\ 2 * (h * Cardinality(S) - 100 * Total(S, col)) <= Cardinality(S)

\* the first day of the day, month or year a date falls in
PeriodStart(d, period) ==
    IF period = "daily" THEN d
    ELSE IF period = "monthly" THEN <<d[1], d[2], 1>>
    ELSE <<d[1], 1, 1>>

DateBefore(a, b) ==
    \/ a[1] < b[1]
    \/ a[1] = b[1] /\ a[2] < b[2]
    \/ a[1] = b[1] /\ a[2] = b[2] /\ a[3] < b[3]

Aggregated(sid, period, data) ==
    LET mine == {l \in BehaviorLog : l.student_id = sid}
        n == Len(data.labels)
        group(i) == {l \in mine : BucketKey(l.log_date, period) = data.labels[i]}
        start(i) == PeriodStart((CHOOSE l \in group(i) : TRUE).log_date, period)
    IN  /\ Len(data.mood) = n /\ Len(data.focus) = n /\ Len(data.social) = n
        /\ {data.labels[i] : i \in 1..n} = {BucketKey(l.log_date, period) : l \in mine}
        /\ \A i \in 1..n : \A j \in 1..n :
              i < j => (StrLess(data.labels[i], data.labels[j])
                        /\ DateBefore(start(i), start(j)))
        /\ \A i \in 1..n :
              /\ \A l \in group(i) : PeriodStart(l.log_date, period) = start(i)
              /\ IsAverage(data.mood[i], group(i), "mood")
              /\ IsAverage(data.focus[i], group(i), "focus")
              /\ IsAverage(data.social[i], group(i), "social")
        /\ mine = {} => n = 0

\* C6: for a student id and a period among daily, monthly and yearly, the chart data
\* are four sequences of one length; the labels are the distinct bucket keys of that
\* student's logs in strictly ascending order, the i-th mood, focus and social are the
\* averages to 2 decimals of that student's logs with the i-th key, and a student
\* without logs gets four empty sequences
C6_Aggregation ==
    (/\ request.route = "api_behavior"
     /\ response.status = 200
     /\ request.form.period \in {"daily", "monthly", "yearly"})
    => Aggregated(request.form.sid, request.form.period, response.body)

\* the yearly chart of student 1 has two buckets; the row stored first falls in the
\* later one, which averages two logs to 2.5
C6_Witness ==
    /\ request.route = "api_behavior"
    /\ response.status = 200
    /\ request.form.period = "yearly"
    /\ request.form.sid = 1
    /\ Len(response.body.labels) = 2
    /\ \E l \in BehaviorLog : l.id = 1 /\ l.log_date[1] = 2024
    /\ response.body.mood[2] = 250

====
